---- MODULE Spec2Model ----
(***************************************************************************)
(* A model of css_html_analyzer.py (class CSSHTMLAnalyzer).                *)
(*                                                                         *)
(* Text is modelled as a sequence of one-character strings, so that the    *)
(* regular expressions of the source are computed character by character.  *)
(* The HTML parser (BeautifulSoup) and the CSS parser (cssutils) are       *)
(* libraries: what they hand to the analyzer (three sets of names, and an  *)
(* ordered sequence of style rules) is the content of html_dir / css_dir.  *)
(***************************************************************************)
EXTENDS Naturals, Sequences, FiniteSets

VARIABLES
    html_dir,          \* markup found under html_dir: [classes, ids, tags]
    css_dir,           \* style rules found under css_dir, file-then-document order
    html_classes,      \* self.html_classes
    html_ids,          \* self.html_ids
    html_tags,         \* self.html_tags
    css_selectors,     \* self.css_selectors: insertion-ordered selector -> files
    duplicate_rules,   \* self.duplicate_rules: insertion-ordered rule_hash -> locations
    ingests,           \* number of times css_dir has been read by this instance
    unused_ret,        \* what find_unused_selectors returned, if called since the
                       \* fields were last written
    dupsel_ret,        \* the same for find_duplicate_selectors
    duprule_ret,       \* the same for find_duplicate_rules
    analyze_ret,       \* return values of analyze(), oldest first
    ingested,          \* every style rule parse_css_files has read so far, in order
    input,             \* argument(s) of a direct call of a helper method
    output             \* its return value

vars == << html_dir, css_dir, html_classes, html_ids, html_tags, css_selectors,
           duplicate_rules, ingests, unused_ret, dupsel_ret, duprule_ret,
           analyze_ret, ingested, input, output >>

---------------------------------------------------------------------------
(* Bounds of the model *)

\* rules in the stylesheets under css_dir
MaxRules == 2
\* calls that read css_dir (parse_css_files, analyze) per instance
MaxIngest == 2
\* length of a selector over PseudoAlphabet given to _extract_selector_components
MaxPseudoLen == 7
\* length of a selector over SelAlphabet given to _extract_selector_components
MaxSelLen == 3
\* length of a selector given to _hash_rule
MaxKeySelLen == 2
\* length of a declaration text given to _hash_rule
MaxDeclLen == 3

---------------------------------------------------------------------------
(* Characters and character classes of Python's re module (ASCII range) *)

LowerSeq == << "a","b","c","d","e","f","g","h","i","j","k","l","m",
               "n","o","p","q","r","s","t","u","v","w","x","y","z" >>
UpperSeq == << "A","B","C","D","E","F","G","H","I","J","K","L","M",
               "N","O","P","Q","R","S","T","U","V","W","X","Y","Z" >>
LowerLetters == { LowerSeq[i] : i \in 1..26 }
UpperLetters == { UpperSeq[i] : i \in 1..26 }
Digits == { "0","1","2","3","4","5","6","7","8","9" }

\* \w
WordChars == LowerLetters \cup UpperLetters \cup Digits \cup { "_" }
\* [\w-] and [a-zA-Z0-9_-]
NameChars == WordChars \cup { "-" }
\* [a-z0-9]
LowerAlnum == LowerLetters \cup Digits
\* \s
Whitespace == { " ", "\t", "\n", "\r", "\f" }

\* str.lower() on one character
LowerChar(c) ==
    IF c \in UpperLetters
    THEN LowerSeq[CHOOSE i \in 1..26 : UpperSeq[i] = c]
    ELSE c

\* str.lower()
Lower(s) == [ i \in 1..Len(s) |-> LowerChar(s[i]) ]

\* index of the last character of the maximal run of characters of cs that
\* starts at i (s[i] is in cs): a greedy  [cs]+
RECURSIVE RunEnd(_, _, _)
RunEnd(s, i, cs) ==
    IF i + 1 <= Len(s) /\ s[i + 1] \in cs THEN RunEnd(s, i + 1, cs) ELSE i

\* all texts over alphabet of length at most n
Strs(alphabet, n) == UNION { [ 1..len -> alphabet ] : len \in 0..n }

---------------------------------------------------------------------------
(* _hash_rule *)

\* re.sub(r'\s+', ' ', css_text)
RECURSIVE CollapseFrom(_, _)
CollapseFrom(t, i) ==
    IF i > Len(t) THEN << >>
    ELSE IF t[i] \in Whitespace
         THEN << " " >> \o CollapseFrom(t, RunEnd(t, i, Whitespace) + 1)
         ELSE << t[i] >> \o CollapseFrom(t, i + 1)

\* str.strip()
RECURSIVE Strip(_)
Strip(t) ==
    IF t = << >> THEN t
    ELSE IF t[1] \in Whitespace THEN Strip(Tail(t))
    ELSE IF t[Len(t)] \in Whitespace THEN Strip(SubSeq(t, 1, Len(t) - 1))
    ELSE t

\* the substitution alone, without .strip()
NormalizeNoStrip(css_text) == CollapseFrom(css_text, 1)

\* normalized = re.sub(r'\s+', ' ', css_text).strip()
Normalize(css_text) == Strip(CollapseFrom(css_text, 1))

\* return f"{selector}|{normalized}"
HashRule(selector, css_text) == selector \o << "|" >> \o Normalize(css_text)

---------------------------------------------------------------------------
(* _extract_selector_components *)

\* ::?[\w-]+  alone, without the optional argument group
PseudoMatchNoArgs(s, i) ==
    IF s[i] # ":" THEN 0
    ELSE LET j == IF i + 1 <= Len(s) /\ s[i + 1] = ":" THEN i + 2 ELSE i + 1
         IN  IF j > Len(s) \/ s[j] \notin NameChars THEN 0
             ELSE RunEnd(s, j, NameChars)

\* The match of  ::?[\w-]+(\([^)]*\))?  that starts at i: the index of its
\* last character, or 0 when the pattern does not match at i.
PseudoMatchEnd(s, i) ==
    IF s[i] # ":" THEN 0
    ELSE LET j == IF i + 1 <= Len(s) /\ s[i + 1] = ":" THEN i + 2 ELSE i + 1
         IN  IF j > Len(s) \/ s[j] \notin NameChars THEN 0
             ELSE LET e == RunEnd(s, j, NameChars)
                      closers == { k \in (e + 2)..Len(s) : s[k] = ")" }
                  IN  IF e + 1 <= Len(s) /\ s[e + 1] = "(" /\ closers # {}
                      THEN CHOOSE k \in closers : \A m \in closers : k <= m
                      ELSE e

\* cleaned = re.sub(r'::?[\w-]+(\([^)]*\))?', '', selector)
RECURSIVE CleanFrom(_, _)
CleanFrom(s, i) ==
    IF i > Len(s) THEN << >>
    ELSE LET m == PseudoMatchEnd(s, i)
         IN  IF m = 0 THEN << s[i] >> \o CleanFrom(s, i + 1)
             ELSE CleanFrom(s, m + 1)

Cleaned(selector) == CleanFrom(selector, 1)

\* set(re.findall(mark + r'([a-zA-Z0-9_-]+)', cleaned)) for mark "." or "#"
RECURSIVE FindPrefixed(_, _, _)
FindPrefixed(s, i, mark) ==
    IF i > Len(s) THEN {}
    ELSE IF s[i] = mark /\ i + 1 <= Len(s) /\ s[i + 1] \in NameChars
         THEN LET e == RunEnd(s, i + 1, NameChars)
              IN  { SubSeq(s, i + 1, e) } \cup FindPrefixed(s, e + 1, mark)
         ELSE FindPrefixed(s, i + 1, mark)

\* set(re.findall(r'\b([a-z][a-z0-9]*)\b', s)), s already lowercased
RECURSIVE FindTags(_, _)
FindTags(s, i) ==
    IF i > Len(s) THEN {}
    ELSE IF s[i] \in LowerLetters /\ (i = 1 \/ s[i - 1] \notin WordChars)
         THEN LET e == RunEnd(s, i, LowerAlnum)
              IN  IF e = Len(s) \/ s[e + 1] \notin WordChars
                  THEN { SubSeq(s, i, e) } \cup FindTags(s, e + 1)
                  ELSE FindTags(s, i + 1)
         ELSE FindTags(s, i + 1)

\* the keywords taken out of the tag set
TagKeywords == { << "n","o","t" >>, << "i","s" >>,
                 << "w","h","e","r","e" >>, << "h","a","s" >> }

\* the three findall calls, on the text the pseudo-classes were taken out of
ComponentsOf(cleaned) ==
    [ classes |-> FindPrefixed(cleaned, 1, "."),
      ids     |-> FindPrefixed(cleaned, 1, "#"),
      tags    |-> FindTags(Lower(cleaned), 1) \ TagKeywords ]

ExtractSelectorComponents(selector) == ComponentsOf(Cleaned(selector))

---------------------------------------------------------------------------
(* The two indexes: Python dicts, which iterate in insertion order, as       *)
(* sequences of items [key, val]                                             *)

Keys(index) == { index[i].key : i \in 1..Len(index) }

\* index[k].append(item) on a defaultdict(list), every occurrence kept
DictAppend(index, k, item) ==
    IF k \in Keys(index)
    THEN [ i \in 1..Len(index) |->
             IF index[i].key = k
             THEN [ key |-> k, val |-> Append(index[i].val, item) ]
             ELSE index[i] ]
    ELSE Append(index, [ key |-> k, val |-> << item >> ])

\* the body of the loop of parse_css_files, for one style rule
IngestRule(idx, rule) ==
    [ css_selectors   |-> DictAppend(idx.css_selectors, rule.selector, rule.file),
      duplicate_rules |-> DictAppend(idx.duplicate_rules,
                                     HashRule(rule.selector, rule.cssText),
                                     << rule.file, rule.selector >>) ]

\* the loop of parse_css_files over the style rules, in order
RECURSIVE IngestAll(_, _, _)
IngestAll(idx, rules, i) ==
    IF i > Len(rules) THEN idx
    ELSE IngestAll(IngestRule(idx, rules[i]), rules, i + 1)

---------------------------------------------------------------------------
(* The three analyses, as functions of the analyzer's fields *)

\* "used" read as: used in every kind of component
IsUnusedAllKinds(components, classes, ids, tags) ==
    LET class_used == components.classes \cap classes # {}
        id_used    == components.ids \cap ids # {}
        tag_used   == components.tags \cap tags # {}
        has_components ==
            components.classes # {} \/ components.ids # {} \/ components.tags # {}
    IN  has_components /\ ~(class_used /\ id_used /\ tag_used)

\* has_components and not (class_used or id_used or tag_used)
IsUnused(components, classes, ids, tags) ==
    LET class_used == \E cls \in components.classes : cls \in classes
        id_used    == \E id_ \in components.ids : id_ \in ids
        tag_used   == \E tag \in components.tags : tag \in tags
        has_components ==
            components.classes # {} \/ components.ids # {} \/ components.tags # {}
    IN  has_components /\ ~(class_used \/ id_used \/ tag_used)

RECURSIVE UnusedFrom(_, _, _, _, _)
UnusedFrom(index, i, classes, ids, tags) ==
    IF i > Len(index) THEN << >>
    ELSE LET components == ExtractSelectorComponents(index[i].key)
             rest == UnusedFrom(index, i + 1, classes, ids, tags)
         IN  IF IsUnused(components, classes, ids, tags)
             THEN << [ selector   |-> index[i].key,
                       files      |-> index[i].val,
                       components |-> components ] >> \o rest
             ELSE rest

FindUnusedSelectors(index, classes, ids, tags) ==
    UnusedFrom(index, 1, classes, ids, tags)

\* len(files) counted as the number of distinct files
RECURSIVE DupSelByFilesFrom(_, _)
DupSelByFilesFrom(index, i) ==
    IF i > Len(index) THEN << >>
    ELSE LET files == index[i].val
             distinct == Cardinality({ files[n] : n \in 1..Len(files) })
             rest == DupSelByFilesFrom(index, i + 1)
         IN  IF distinct > 1
             THEN << [ selector |-> index[i].key,
                       count    |-> distinct,
                       files    |-> files ] >> \o rest
             ELSE rest

DupSelByFiles(index) == DupSelByFilesFrom(index, 1)

RECURSIVE DupSelFrom(_, _)
DupSelFrom(index, i) ==
    IF i > Len(index) THEN << >>
    ELSE LET files == index[i].val
             rest == DupSelFrom(index, i + 1)
         IN  IF Len(files) > 1
             THEN << [ selector |-> index[i].key,
                       count    |-> Len(files),
                       files    |-> files ] >> \o rest
             ELSE rest

FindDuplicateSelectors(index) == DupSelFrom(index, 1)

\* rule_hash.split('|')[0]
SplitFirst(rule_hash) ==
    LET bars == { k \in 1..Len(rule_hash) : rule_hash[k] = "|" }
    IN  IF bars = {} THEN rule_hash
        ELSE SubSeq(rule_hash, 1, (CHOOSE k \in bars : \A m \in bars : k <= m) - 1)

RECURSIVE DupRulesFrom(_, _)
DupRulesFrom(index, i) ==
    IF i > Len(index) THEN << >>
    ELSE LET locations == index[i].val
             rest == DupRulesFrom(index, i + 1)
         IN  IF Len(locations) > 1
             THEN << [ rule      |-> SplitFirst(index[i].key),
                       count     |-> Len(locations),
                       locations |-> locations ] >> \o rest
             ELSE rest

FindDuplicateRules(index) == DupRulesFrom(index, 1)

---------------------------------------------------------------------------
(* What the analyzer is run on: the stylesheets and markup of the examples *)

NameCard == << "c","a","r","d" >>
NameDiv == << "d","i","v" >>
NameP == << "p" >>
NameMain == << "m","a","i","n" >>
NameMissing == << "m","i","s","s","i","n","g" >>

\* .card
SelCard == << ".","c","a","r","d" >>
\* .missing
SelMissing == << ".","m","i","s","s","i","n","g" >>
\* .btn
SelBtn == << ".","b","t","n" >>
\* .div
SelDotDiv == << ".","d","i","v" >>
\* [type="text"]
SelAttr == << "[","t","y","p","e","=","\"","t","e","x","t","\"","]" >>
\* [lang|=en]
SelLang == << "[","l","a","n","g","|","=","e","n","]" >>
\* *
SelStar == << "*" >>
\* :hover
SelHover == << ":","h","o","v","e","r" >>
\* div:hover::after
SelDivHover == << "d","i","v",":","h","o","v","e","r",":",":","a","f","t","e","r" >>
\* #main p
SelMainP == << "#","m","a","i","n"," ","p" >>
\* #main  p
SelMainWideP == << "#","m","a","i","n"," "," ","p" >>

\* color: red
DeclRed == << "c","o","l","o","r",":"," ","r","e","d" >>
\* color: blue
DeclBlue == << "c","o","l","o","r",":"," ","b","l","u","e" >>
\* padding: 4px
DeclPad == << "p","a","d","d","i","n","g",":"," ","4","p","x" >>

Rule(selector, cssText, file) ==
    [ selector |-> selector, cssText |-> cssText, file |-> file ]

\* the style rules a stylesheet of css_dir may hold (files "A.css" and "B.css")
StyleRules ==
    { Rule(SelCard, DeclRed, "A.css"),
      Rule(SelMissing, DeclBlue, "A.css"),
      Rule(SelBtn, DeclPad, "A.css"),
      Rule(SelBtn, DeclPad, "B.css"),
      Rule(SelMainP, DeclRed, "A.css"),
      Rule(SelMainWideP, DeclRed, "B.css") }

\* style rules whose selectors are not plain class, id or tag selectors
EdgeRules ==
    { Rule(SelDotDiv, DeclRed, "A.css"),
      Rule(SelAttr, DeclRed, "B.css"),
      Rule(SelLang, DeclRed, "B.css"),
      Rule(SelStar, DeclRed, "A.css"),
      Rule(SelHover, DeclRed, "A.css"),
      Rule(SelDivHover, DeclBlue, "B.css") }

\* the stylesheets: at most MaxRules style rules, in the order they are read
Stylesheets(rules) == UNION { [ 1..n -> rules ] : n \in 0..MaxRules }

\* the markup: what parse_html_files finds in the documents of html_dir
Markups ==
    { [ classes |-> { NameCard }, ids |-> {}, tags |-> { NameDiv, NameP } ],
      [ classes |-> {}, ids |-> { NameMain }, tags |-> {} ],
      [ classes |-> {}, ids |-> {}, tags |-> {} ] }

---------------------------------------------------------------------------
(* The analyzer *)

NotCalled == [ called |-> FALSE, val |-> << >> ]

Returned(val) == [ called |-> TRUE, val |-> val ]

\* the stats entry of analyze's results
Stats(selectors, classes, ids, tags) ==
    [ total_css_selectors |-> Len(selectors),
      total_html_classes  |-> Cardinality(classes),
      total_html_ids      |-> Cardinality(ids),
      total_html_tags     |-> Cardinality(tags) ]

\* __init__, called on directories that hold sheets and markup
InitOn(sheets, markups) ==
    /\ html_dir \in markups
    /\ css_dir \in sheets
    /\ html_classes = {}
    /\ html_ids = {}
    /\ html_tags = {}
    /\ css_selectors = << >>
    /\ duplicate_rules = << >>
    /\ ingests = 0
    /\ unused_ret = NotCalled
    /\ dupsel_ret = NotCalled
    /\ duprule_ret = NotCalled
    /\ analyze_ret = << >>
    /\ ingested = << >>

parse_html_files ==
    /\ html_classes' = html_classes \cup html_dir.classes
    /\ html_ids' = html_ids \cup html_dir.ids
    /\ html_tags' = html_tags \cup html_dir.tags
    /\ unused_ret' = NotCalled
    /\ dupsel_ret' = NotCalled
    /\ duprule_ret' = NotCalled
    /\ UNCHANGED << html_dir, css_dir, css_selectors, duplicate_rules, ingests,
                    analyze_ret, ingested, input, output >>

parse_css_files ==
    /\ ingests < MaxIngest
    /\ LET idx == IngestAll([ css_selectors   |-> css_selectors,
                              duplicate_rules |-> duplicate_rules ], css_dir, 1)
       IN  /\ css_selectors' = idx.css_selectors
           /\ duplicate_rules' = idx.duplicate_rules
    /\ ingested' = ingested \o css_dir
    /\ ingests' = ingests + 1
    /\ unused_ret' = NotCalled
    /\ dupsel_ret' = NotCalled
    /\ duprule_ret' = NotCalled
    /\ UNCHANGED << html_dir, css_dir, html_classes, html_ids, html_tags,
                    analyze_ret, input, output >>

\* find_unused_selectors emptying the index it walks
find_unused_selectors_consuming ==
    /\ unused_ret' = Returned(FindUnusedSelectors(css_selectors, html_classes,
                                                  html_ids, html_tags))
    /\ css_selectors' = << >>
    /\ UNCHANGED << html_dir, css_dir, html_classes, html_ids, html_tags,
                    duplicate_rules, ingests, dupsel_ret, duprule_ret, analyze_ret,
                    ingested, input, output >>

find_unused_selectors ==
    /\ unused_ret' = Returned(FindUnusedSelectors(css_selectors, html_classes,
                                                  html_ids, html_tags))
    /\ UNCHANGED << html_dir, css_dir, html_classes, html_ids, html_tags,
                    css_selectors, duplicate_rules, ingests, dupsel_ret, duprule_ret,
                    analyze_ret, ingested, input, output >>

find_duplicate_selectors ==
    /\ dupsel_ret' = Returned(FindDuplicateSelectors(css_selectors))
    /\ UNCHANGED << html_dir, css_dir, html_classes, html_ids, html_tags,
                    css_selectors, duplicate_rules, ingests, unused_ret, duprule_ret,
                    analyze_ret, ingested, input, output >>

find_duplicate_rules ==
    /\ duprule_ret' = Returned(FindDuplicateRules(duplicate_rules))
    /\ UNCHANGED << html_dir, css_dir, html_classes, html_ids, html_tags,
                    css_selectors, duplicate_rules, ingests, unused_ret, dupsel_ret,
                    analyze_ret, ingested, input, output >>

\* parse_html_files(), parse_css_files(), then the three analyses and the stats
analyze ==
    /\ ingests < MaxIngest
    /\ LET classes == html_classes \cup html_dir.classes
           ids     == html_ids \cup html_dir.ids
           tags    == html_tags \cup html_dir.tags
           idx     == IngestAll([ css_selectors   |-> css_selectors,
                                  duplicate_rules |-> duplicate_rules ], css_dir, 1)
           unused  == FindUnusedSelectors(idx.css_selectors, classes, ids, tags)
           dupsel  == FindDuplicateSelectors(idx.css_selectors)
           duprule == FindDuplicateRules(idx.duplicate_rules)
       IN  /\ html_classes' = classes
           /\ html_ids' = ids
           /\ html_tags' = tags
           /\ css_selectors' = idx.css_selectors
           /\ duplicate_rules' = idx.duplicate_rules
           /\ unused_ret' = Returned(unused)
           /\ dupsel_ret' = Returned(dupsel)
           /\ duprule_ret' = Returned(duprule)
           /\ analyze_ret' = Append(analyze_ret,
                  [ unused_selectors    |-> unused,
                    duplicate_selectors |-> dupsel,
                    duplicate_rules     |-> duprule,
                    stats |-> Stats(idx.css_selectors, classes, ids, tags) ])
    /\ ingested' = ingested \o css_dir
    /\ ingests' = ingests + 1
    /\ UNCHANGED << html_dir, css_dir, input, output >>

Next ==
    \/ parse_html_files
    \/ parse_css_files
    \/ find_unused_selectors
    \/ find_duplicate_selectors
    \/ find_duplicate_rules
    \/ analyze

NoCall ==
    /\ input = [ fn |-> "none" ]
    /\ output = NotCalled

Init == InitOn(Stylesheets(StyleRules), Markups) /\ NoCall

Spec == Init /\ [][Next]_vars

InitEdge == InitOn(Stylesheets(EdgeRules), Markups) /\ NoCall

SpecEdge == InitEdge /\ [][Next]_vars

---------------------------------------------------------------------------
(* Direct calls of the two helper methods, on bounded texts *)

\* characters of selectors with pseudo-classes and their arguments
PseudoAlphabet == { ":", "(", ")", "a", "." }

\* characters of selectors in general
SelAlphabet == { ".", "#", "a", "A", "-", "_", "1", ":", "(", ")",
                 "[", "]", " ", "*", ">", "|" }

Selectors ==
    Strs(PseudoAlphabet, MaxPseudoLen) \cup Strs(SelAlphabet, MaxSelLen)
        \cup { SelDivHover }

NoMarkup == [ classes |-> {}, ids |-> {}, tags |-> {} ]

InitExtract ==
    /\ InitOn({ << >> }, { NoMarkup })
    /\ input \in { [ fn |-> "_extract_selector_components", selector |-> sel ] :
                     sel \in Selectors }
    /\ output = NotCalled

\* components = self._extract_selector_components(selector)
call_extract_selector_components ==
    /\ input.fn = "_extract_selector_components"
    /\ ~output.called
    /\ output' = Returned(ExtractSelectorComponents(input.selector))
    /\ UNCHANGED << html_dir, css_dir, html_classes, html_ids, html_tags,
                    css_selectors, duplicate_rules, ingests, unused_ret, dupsel_ret,
                    duprule_ret, analyze_ret, ingested, input >>

SpecExtract == InitExtract /\ [][call_extract_selector_components]_vars

\* selector texts given to _hash_rule: a name, then names and "|"
KeySelectors ==
    { sel \in Strs({ "a", "|" }, MaxKeySelLen) : sel # << >> /\ sel[1] = "a" }

\* declaration texts as written with blanks, and as written with line breaks
SpacedDecls == Strs({ "a", " ", "|" }, MaxDeclLen)
BrokenDecls == Strs({ "a", "\n" }, MaxDeclLen)

InitHash ==
    /\ InitOn({ << >> }, { NoMarkup })
    /\ input \in { [ fn |-> "_hash_rule",
                     rules |-> << [ selector |-> s1, css_text |-> d1 ],
                                  [ selector |-> s2, css_text |-> d2 ] >> ] :
                     s1 \in KeySelectors, d1 \in SpacedDecls,
                     s2 \in KeySelectors, d2 \in BrokenDecls }
    /\ output = NotCalled

\* rule_hash = self._hash_rule(selector, rule.style.cssText), for both rules
call_hash_rule ==
    /\ input.fn = "_hash_rule"
    /\ ~output.called
    /\ output' = Returned([ n \in 1..2 |->
                   HashRule(input.rules[n].selector, input.rules[n].css_text) ])
    /\ UNCHANGED << html_dir, css_dir, html_classes, html_ids, html_tags,
                    css_selectors, duplicate_rules, ingests, unused_ret, dupsel_ret,
                    duprule_ret, analyze_ret, ingested, input >>

SpecHash == InitHash /\ [][call_hash_rule]_vars

---------------------------------------------------------------------------
(* Vocabulary of the properties *)

Range(seq) == { seq[i] : i \in 1..Len(seq) }

\* the selector texts a list of returned entries names
Reported(out) == { out[i].selector : i \in 1..Len(out) }

\* the selector texts read from the stylesheets so far
IngestedSelectors == { ingested[i].selector : i \in 1..Len(ingested) }

\* how many style rules read so far have selector text sel
Occurrences(sel) ==
    Cardinality({ i \in 1..Len(ingested) : ingested[i].selector = sel })

\* a pseudo-class or pseudo-element as the selector grammar delimits it: one or
\* two colons, an identifier, and an argument that ends at the parenthesis
\* matching the one that opens it. The index of its last character, or 0.
RECURSIVE MatchingClose(_, _, _)
MatchingClose(s, k, depth) ==
    IF k > Len(s) THEN 0
    ELSE IF s[k] = "(" THEN MatchingClose(s, k + 1, depth + 1)
    ELSE IF s[k] = ")"
         THEN IF depth = 1 THEN k ELSE MatchingClose(s, k + 1, depth - 1)
    ELSE MatchingClose(s, k + 1, depth)

PseudoSegmentEnd(s, i) ==
    IF s[i] # ":" THEN 0
    ELSE LET j == IF i + 1 <= Len(s) /\ s[i + 1] = ":" THEN i + 2 ELSE i + 1
         IN  IF j > Len(s) \/ s[j] \notin NameChars THEN 0
             ELSE LET e == RunEnd(s, j, NameChars)
                      close == IF e + 1 <= Len(s) /\ s[e + 1] = "("
                               THEN MatchingClose(s, e + 2, 1) ELSE 0
                  IN  IF close # 0 THEN close ELSE e

\* the selector without its pseudo-class and pseudo-element segments
RECURSIVE WithoutPseudoFrom(_, _)
WithoutPseudoFrom(s, i) ==
    IF i > Len(s) THEN << >>
    ELSE LET m == PseudoSegmentEnd(s, i)
         IN  IF m = 0 THEN << s[i] >> \o WithoutPseudoFrom(s, i + 1)
             ELSE WithoutPseudoFrom(s, m + 1)

WithoutPseudo(s) == WithoutPseudoFrom(s, 1)

\* no parenthesis is opened while another one is open
NoNestedParens(s) ==
    \A i, j \in 1..Len(s) :
        (i < j /\ s[i] = "(" /\ s[j] = "(") =>
            \E k \in (i + 1)..(j - 1) : s[k] = ")"

\* every parenthesis of the text is closed, and none is closed unopened
RECURSIVE BalancedFrom(_, _, _)
BalancedFrom(s, i, depth) ==
    IF i > Len(s) THEN depth = 0
    ELSE IF s[i] = "(" THEN BalancedFrom(s, i + 1, depth + 1)
    ELSE IF s[i] = ")" THEN depth > 0 /\ BalancedFrom(s, i + 1, depth - 1)
    ELSE BalancedFrom(s, i + 1, depth)

Balanced(s) == BalancedFrom(s, 1, 0)

\* the selector is made of attribute selectors, combinators, the universal
\* selector and pseudo-classes or pseudo-elements only
RECURSIVE OnlyIdentityFreeFrom(_, _)
OnlyIdentityFreeFrom(s, i) ==
    IF i > Len(s) THEN TRUE
    ELSE IF s[i] \in { ">", "+", "~", " ", "*" } THEN OnlyIdentityFreeFrom(s, i + 1)
    ELSE IF s[i] = "[" /\ \E k \in (i + 1)..Len(s) : s[k] = "]"
         THEN LET closers == { k \in (i + 1)..Len(s) : s[k] = "]" }
              IN  OnlyIdentityFreeFrom(s,
                      (CHOOSE k \in closers : \A m \in closers : k <= m) + 1)
    ELSE IF PseudoSegmentEnd(s, i) # 0
         THEN OnlyIdentityFreeFrom(s, PseudoSegmentEnd(s, i) + 1)
    ELSE FALSE

IdentityFree(sel) == sel # << >> /\ OnlyIdentityFreeFrom(sel, 1)

NoComponents == [ classes |-> {}, ids |-> {}, tags |-> {} ]

\* text t stands in s at position i
OccursAt(t, s, i) == i + Len(t) - 1 <= Len(s) /\ SubSeq(s, i, i + Len(t) - 1) = t

\* str.split(): the maximal runs of non-whitespace characters, in order
RECURSIVE SplitWsFrom(_, _)
SplitWsFrom(t, i) ==
    IF i > Len(t) THEN << >>
    ELSE IF t[i] \in Whitespace THEN SplitWsFrom(t, i + 1)
    ELSE LET e == RunEnd(t, i, { c \in Range(t) : c \notin Whitespace })
         IN  << SubSeq(t, i, e) >> \o SplitWsFrom(t, e + 1)

SplitWs(t) == SplitWsFrom(t, 1)

\* the text with every whitespace character taken out
WithoutWs(t) == SelectSeq(t, LAMBDA c : c \notin Whitespace)

\* the markup of end-to-end scenario 1
ScenarioOneMarkup ==
    /\ html_classes = { NameCard }
    /\ html_ids = {}
    /\ html_tags = { NameDiv, NameP }

---------------------------------------------------------------------------
(* The properties *)

\* C1: find_unused_selectors reports a selector record exactly when its
\* decomposition has a class, id or tag name and none of its class names is in
\* html_classes, none of its id names in html_ids and none of its tag names in
\* html_tags; no selector text is reported twice; with the markup of scenario 1,
\* .missing is reported and .card is not.
C1_UnusedIffNoComponentUsed ==
    unused_ret.called =>
        LET out == unused_ret.val
            NoneUsed(sel) ==
                LET c == ExtractSelectorComponents(sel)
                IN  /\ c.classes \cup c.ids \cup c.tags # {}
                    /\ c.classes \cap html_classes = {}
                    /\ c.ids \cap html_ids = {}
                    /\ c.tags \cap html_tags = {}
        IN  /\ Reported(out) = { sel \in IngestedSelectors : NoneUsed(sel) }
            /\ \A i, j \in 1..Len(out) : out[i].selector = out[j].selector => i = j
            /\ ScenarioOneMarkup =>
                   /\ SelMissing \in IngestedSelectors => SelMissing \in Reported(out)
                   /\ SelCard \notin Reported(out)

C1_Witness ==
    /\ unused_ret.called
    /\ ScenarioOneMarkup
    /\ { SelCard, SelMissing } \subseteq IngestedSelectors
    /\ Reported(unused_ret.val) = { SelMissing }

\* C2: find_duplicate_selectors returns exactly the selector texts that occur at
\* least twice in the whole sequence of rules read (repeats within one file
\* included), each once, with count equal to that number of occurrences.
C2_DuplicateSelectorsRawCount ==
    dupsel_ret.called =>
        LET out == dupsel_ret.val
        IN  /\ Reported(out) = { sel \in IngestedSelectors : Occurrences(sel) >= 2 }
            /\ \A i \in 1..Len(out) : out[i].count = Occurrences(out[i].selector)
            /\ \A i, j \in 1..Len(out) : out[i].selector = out[j].selector => i = j

C2_Witness ==
    /\ dupsel_ret.called
    /\ Reported(dupsel_ret.val) = { SelMainP, SelMainWideP }
    /\ \A i \in 1..Len(dupsel_ret.val) :
          /\ dupsel_ret.val[i].count = 2
          /\ Cardinality(Range(dupsel_ret.val[i].files)) = 1

\* C7: a call of find_unused_selectors, find_duplicate_selectors or
\* find_duplicate_rules leaves css_selectors, duplicate_rules and the three sets
\* of names as they were, and returns what the same call returned before.
C7_PureReads ==
    [][ ( /\ analyze_ret' = analyze_ret
          /\ unused_ret'.called \/ dupsel_ret'.called \/ duprule_ret'.called )
        => /\ css_selectors' = css_selectors
           /\ duplicate_rules' = duplicate_rules
           /\ html_classes' = html_classes
           /\ html_ids' = html_ids
           /\ html_tags' = html_tags
           /\ (unused_ret.called /\ unused_ret'.called) => unused_ret' = unused_ret
           /\ (dupsel_ret.called /\ dupsel_ret'.called) => dupsel_ret' = dupsel_ret
           /\ (duprule_ret.called /\ duprule_ret'.called) => duprule_ret' = duprule_ret
      ]_vars

C7_Witness ==
    /\ analyze_ret = << >>
    /\ unused_ret.called /\ unused_ret.val # << >>
    /\ dupsel_ret.called /\ dupsel_ret.val # << >>
    /\ duprule_ret.called /\ duprule_ret.val # << >>

\* C10: a second analyze() on the same instance, the directories unchanged,
\* returns the unused selectors, the duplicate selectors with their counts, the
\* duplicate rules and the stats of the first.
C10_SecondAnalyzeSame ==
    (Len(analyze_ret) = 2 /\ ingests = 2) =>
        LET Summary(r) ==
                [ unused |-> [ i \in 1..Len(r.unused_selectors) |->
                                 r.unused_selectors[i].selector ],
                  dupsel |-> [ i \in 1..Len(r.duplicate_selectors) |->
                                 << r.duplicate_selectors[i].selector,
                                    r.duplicate_selectors[i].count >> ],
                  duprule |-> [ i \in 1..Len(r.duplicate_rules) |->
                                 << r.duplicate_rules[i].rule,
                                    r.duplicate_rules[i].count >> ],
                  stats |-> r.stats ]
        IN  Summary(analyze_ret[1]) = Summary(analyze_ret[2])

\* C5: find_duplicate_rules returns one entry per rule key that has more than
\* one occurrence; rule is the selector text of every pair of locations, count
\* the number of occurrences, locations the (file, selector) pairs in the order
\* they were read.
C5_DuplicateRuleEntries ==
    duprule_ret.called =>
        LET out == duprule_ret.val
            SameRule(r, q) ==
                r.selector = q.selector /\ Normalize(r.cssText) = Normalize(q.cssText)
            Matching(r) == SelectSeq(ingested, LAMBDA q : SameRule(r, q))
            Locations(r) ==
                [ n \in 1..Len(Matching(r)) |->
                    << Matching(r)[n].file, Matching(r)[n].selector >> ]
            Groups == { Locations(r) : r \in { q \in Range(ingested) :
                                                 Len(Matching(q)) > 1 } }
        IN  /\ { out[i].locations : i \in 1..Len(out) } = Groups
            /\ Len(out) = Cardinality(Groups)
            /\ \A i \in 1..Len(out) :
                  /\ out[i].count = Len(out[i].locations)
                  /\ \A n \in 1..Len(out[i].locations) :
                        out[i].rule = out[i].locations[n][2]

\* C6: a selector made only of attribute selectors, combinators, the universal
\* selector or pseudo-classes decomposes to three empty sets and is never
\* reported by find_unused_selectors.
C6_IdentityFreeNeverUnused ==
    \A sel \in Keys(css_selectors) :
        IdentityFree(sel) =>
            /\ ExtractSelectorComponents(sel) = NoComponents
            /\ unused_ret.called => sel \notin Reported(unused_ret.val)

\* C8: every tag name of a selector's decomposition stands somewhere in the
\* lowercased selector not right after "." or "#"; so .div has no tag names,
\* and is reported unused whenever div is not among html_classes.
C8_TagsNotFromClassOrId ==
    /\ \A sel \in Keys(css_selectors) :
          \A t \in ExtractSelectorComponents(sel).tags :
              \E i \in 1..Len(sel) :
                  /\ OccursAt(t, Lower(sel), i)
                  /\ i = 1 \/ sel[i - 1] \notin { ".", "#" }
    /\ ( /\ unused_ret.called
         /\ SelDotDiv \in Keys(css_selectors)
         /\ NameDiv \notin html_classes )
       => SelDotDiv \in Reported(unused_ret.val)

C4_SameKeySameRule ==
    output.called =>
        LET a == input.rules[1]
            b == input.rules[2]
        IN  output.val[1] = output.val[2] =>
                /\ a.selector = b.selector
                /\ Normalize(a.css_text) = Normalize(b.css_text)

====
